---- MODULE Spec2Model ----
(***************************************************************************)
(* Model of the FLUX.1 Schnell manifold function (class Pipe).  Python     *)
(* strings are sequences of one-character strings, bytes are sequences of  *)
(* integers 0..255, and decoded JSON / Python objects are tagged records    *)
(* [t, v].  One call of Pipe.pipe is the steps pipe -> POST -> (GET) ->     *)
(* return; the outcomes of the network calls are the environment's choice.  *)
(***************************************************************************)
EXTENDS Integers, Sequences, FiniteSets, TLC

\* ------------------------------------------------------------------ bounds
\* number of host segments a configured base URL is built from
MaxHosts == 2
\* number of bytes that may follow an image signature in a response body
MaxTail == 1

\* ------------------------------------------------------- string primitives
\* the characters U+0027 and U+0060; the grave accent cannot be written in
\* a string literal, so the character is the atom named after its code point
Apostrophe == "'"
Backtick == "U+0060"
Min(a, b) == IF a < b THEN a ELSE b

\* str.startswith
StartsWith(s, p) == Len(s) >= Len(p) /\ SubSeq(s, 1, Len(p)) = p

\* index of the first occurrence of sub in s at or after position from, 0 when none
FindFrom(s, sub, from) ==
    LET hits == {i \in from..(Len(s) - Len(sub) + 1) : SubSeq(s, i, i + Len(sub) - 1) = sub}
    IN  IF hits = {} THEN 0 ELSE CHOOSE i \in hits : \A j \in hits : i <= j

\* the Python operator sub in s on strings
Contains(s, sub) == FindFrom(s, sub, 1) # 0

\* s[:n]
Prefix(s, n) == SubSeq(s, 1, Min(n, Len(s)))

\* s.split(sep)[1]: the text between the first and the second occurrence of
\* sep (to the end when there is no second one); IndexError when sep is absent
SplitSecond(s, sep) ==
    LET i == FindFrom(s, sep, 1)
        start == i + Len(sep)
        j == FindFrom(s, sep, start)
    IN  IF i = 0 THEN [ok |-> FALSE]
        ELSE [ok |-> TRUE,
              v |-> IF j = 0 THEN SubSeq(s, start, Len(s)) ELSE SubSeq(s, start, j - 1)]

\* s.split(sep)[-1] for a one-character sep: the text after the last sep
SplitLast(s, sep) ==
    LET hits == {i \in 1..Len(s) : s[i] = sep}
    IN  IF hits = {} THEN s
        ELSE SubSeq(s, (CHOOSE i \in hits : \A j \in hits : j <= i) + 1, Len(s))

\* ------------------------------------------------------------------ base64
B64Alphabet == (* ABCDEFGHIJKLMNOPQRSTUVWXYZabcdefghijklmnopqrstuvwxyz0123456789+/ *) <<"A","B","C","D","E","F","G","H","I","J","K","L","M","N","O","P","Q","R","S","T","U","V","W","X","Y","Z","a","b","c","d","e","f","g","h","i","j","k","l","m","n","o","p","q","r","s","t","u","v","w","x","y","z","0","1","2","3","4","5","6","7","8","9","+","/">>

RECURSIVE b64encode(_)
\* base64.b64encode(content).decode("utf-8")
b64encode(b) ==
    IF Len(b) = 0 THEN <<>>
    ELSE IF Len(b) = 1 THEN
        << B64Alphabet[(b[1] \div 4) + 1],
           B64Alphabet[((b[1] % 4) * 16) + 1], "=", "=" >>
    ELSE IF Len(b) = 2 THEN
        << B64Alphabet[(b[1] \div 4) + 1],
           B64Alphabet[((b[1] % 4) * 16 + (b[2] \div 16)) + 1],
           B64Alphabet[((b[2] % 16) * 4) + 1], "=" >>
    ELSE
        << B64Alphabet[(b[1] \div 4) + 1],
           B64Alphabet[((b[1] % 4) * 16 + (b[2] \div 16)) + 1],
           B64Alphabet[((b[2] % 16) * 4 + (b[3] \div 64)) + 1],
           B64Alphabet[(b[3] % 64) + 1] >> \o b64encode(SubSeq(b, 4, Len(b)))

\* ---------------------------------------------------------- Python objects
\* an object is the pair of its type and its value
Str(s) == << "str", s >>
List(l) == << "list", l >>
\* a dict is its items in insertion order, each <<key, value>> with a string key
Dict(items) == << "dict", items >>
PyInt(n) == << "int", n >>
Bool(b) == << "bool", b >>
None == << "none", 0 >>
TypeOf(x) == x[1]
ValueOf(x) == x[2]

\* an exception: RequestException (and subclasses) or any other Exception
RequestException(msg) == [cls |-> "RequestException", msg |-> msg]
OtherException(msg) == [cls |-> "Exception", msg |-> msg]
Ok(v) == [ok |-> TRUE, v |-> v]
Raise(e) == [ok |-> FALSE, exc |-> e]

HasKey(items, k) == \E i \in 1..Len(items) : items[i][1] = k
Lookup(items, k) == items[CHOOSE i \in 1..Len(items) : items[i][1] = k][2]
\* d[k] = val on a dict: replaces in place, else appends
DictSet(items, k, val) ==
    IF HasKey(items, k)
    THEN [i \in 1..Len(items) |-> IF items[i][1] = k THEN <<k, val>> ELSE items[i]]
    ELSE Append(items, <<k, val>>)

\* the Python operator k in x for a string k
PyIn(k, x) ==
    CASE TypeOf(x) = "dict" -> Ok(HasKey(ValueOf(x), k))
      [] TypeOf(x) = "str"  -> Ok(Contains(ValueOf(x), k))
      [] TypeOf(x) = "list" -> Ok(\E i \in 1..Len(ValueOf(x)) : TypeOf(ValueOf(x)[i]) = "str" /\ ValueOf(ValueOf(x)[i]) = k)
      [] OTHER        -> Raise(OtherException((* argument is not iterable *) <<"a","r","g","u","m","e","n","t"," ","i","s"," ","n","o","t"," ","i","t","e","r","a","b","l","e">>))

\* x[k] for a string k
PyGetKey(x, k) ==
    CASE TypeOf(x) = "dict" -> IF HasKey(ValueOf(x), k) THEN Ok(Lookup(ValueOf(x), k))
                         ELSE Raise(OtherException(k))
      [] TypeOf(x) \in {"str", "list"} -> Raise(OtherException((* indices must be integers *) <<"i","n","d","i","c","e","s"," ","m","u","s","t"," ","b","e"," ","i","n","t","e","g","e","r","s">>))
      [] OTHER        -> Raise(OtherException((* object is not subscriptable *) <<"o","b","j","e","c","t"," ","i","s"," ","n","o","t"," ","s","u","b","s","c","r","i","p","t","a","b","l","e">>))

\* x[0]
PyGetFirst(x) ==
    CASE TypeOf(x) = "list" -> IF Len(ValueOf(x)) = 0
                         THEN Raise(OtherException((* list index out of range *) <<"l","i","s","t"," ","i","n","d","e","x"," ","o","u","t"," ","o","f"," ","r","a","n","g","e">>))
                         ELSE Ok(ValueOf(x)[1])
      [] TypeOf(x) = "str"  -> IF Len(ValueOf(x)) = 0
                         THEN Raise(OtherException((* string index out of range *) <<"s","t","r","i","n","g"," ","i","n","d","e","x"," ","o","u","t"," ","o","f"," ","r","a","n","g","e">>))
                         ELSE Ok(Str(<<ValueOf(x)[1]>>))
      [] TypeOf(x) = "dict" -> Raise(OtherException(<<"0">>))
      [] OTHER        -> Raise(OtherException((* object is not subscriptable *) <<"o","b","j","e","c","t"," ","i","s"," ","n","o","t"," ","s","u","b","s","c","r","i","p","t","a","b","l","e">>))

RECURSIVE JoinRepr(_, _)
RECURSIVE JoinItems(_, _)
RECURSIVE Repr(_)
\* the text an f-string produces for {x}: str() of a string is the string, of
\* anything else its repr
Repr(x) ==
    CASE TypeOf(x) = "str"  -> <<Apostrophe>> \o ValueOf(x) \o <<Apostrophe>>
      [] TypeOf(x) = "int"  -> IF ValueOf(x) = 0 THEN <<"0">> ELSE (* <int> *) <<"<","i","n","t",">">>
      [] TypeOf(x) = "bool" -> IF ValueOf(x) THEN (* True *) <<"T","r","u","e">> ELSE (* False *) <<"F","a","l","s","e">>
      [] TypeOf(x) = "none" -> (* None *) <<"N","o","n","e">>
      [] TypeOf(x) = "list" -> <<"[">> \o JoinRepr(ValueOf(x), 1) \o <<"]">>
      [] TypeOf(x) = "dict" -> <<"{">> \o JoinItems(ValueOf(x), 1) \o <<"}">>
JoinRepr(l, i) ==
    IF i > Len(l) THEN <<>>
    ELSE Repr(l[i]) \o (IF i < Len(l) THEN <<","," ">> ELSE <<>>) \o JoinRepr(l, i + 1)
JoinItems(items, i) ==
    IF i > Len(items) THEN <<>>
    ELSE <<Apostrophe>> \o items[i][1] \o (* ':  *) <<Apostrophe,":"," ">> \o Repr(items[i][2])
         \o (IF i < Len(items) THEN <<","," ">> ELSE <<>>) \o JoinItems(items, i + 1)
Format(x) == IF TypeOf(x) = "str" THEN ValueOf(x) ELSE Repr(x)

\* ------------------------------------------------ eval of the config fragment
RECURSIVE SkipWs(_, _)
SkipWs(s, i) == IF i <= Len(s) /\ s[i] = " " THEN SkipWs(s, i + 1) ELSE i

\* a double-quoted string literal starting at s[i]
ParseStr(s, i) ==
    IF i > Len(s) \/ s[i] # "\"" THEN [ok |-> FALSE]
    ELSE LET j == FindFrom(s, <<"\"">>, i + 1)
         IN  IF j = 0 THEN [ok |-> FALSE]
             ELSE [ok |-> TRUE, v |-> SubSeq(s, i + 1, j - 1), next |-> j + 1]

RECURSIVE ParseEntries(_, _, _)
\* the entries "key": "value", of a dict display, from s[i] on
ParseEntries(s, i, acc) ==
    LET i0 == SkipWs(s, i) IN
    IF i0 > Len(s) THEN [ok |-> TRUE, v |-> acc]
    ELSE LET k == ParseStr(s, i0) IN
    IF ~k.ok THEN [ok |-> FALSE]
    ELSE LET i1 == SkipWs(s, k.next) IN
    IF i1 > Len(s) \/ s[i1] # ":" THEN [ok |-> FALSE]
    ELSE LET val == ParseStr(s, SkipWs(s, i1 + 1)) IN
    IF ~val.ok THEN [ok |-> FALSE]
    ELSE LET i2 == SkipWs(s, val.next)
             acc2 == DictSet(acc, k.v, Str(val.v)) IN
    IF i2 > Len(s) THEN [ok |-> TRUE, v |-> acc2]
    ELSE IF s[i2] # "," THEN [ok |-> FALSE]
    ELSE ParseEntries(s, i2 + 1, acc2)

\* eval(f"{{{BEFORE_INPUT_STRING}}}") spliced with ** into a dict display:
\* the items of the mapping, or an exception when the text is no mapping
EvalFragment(s) ==
    LET r == ParseEntries(s, 1, <<>>)
    IN  IF r.ok THEN Ok(r.v) ELSE Raise(OtherException((* invalid syntax *) <<"i","n","v","a","l","i","d"," ","s","y","n","t","a","x">>))

\* ------------------------------------------------------- provider profiles
\* the keys of payload_map in insertion order
ProviderKeys == << (* huggingface.co *) <<"h","u","g","g","i","n","g","f","a","c","e",".","c","o">>, (* replicate.com *) <<"r","e","p","l","i","c","a","t","e",".","c","o","m">>, (* together.xyz *) <<"t","o","g","e","t","h","e","r",".","x","y","z">>, (* hyperbolic.xyz *) <<"h","y","p","e","r","b","o","l","i","c",".","x","y","z">> >>

NoHeaders == [h \in {} |-> <<>>]
headers_map(key) ==
    CASE key = (* huggingface.co *) <<"h","u","g","g","i","n","g","f","a","c","e",".","c","o">> -> [h \in {"x-wait-for-model"} |-> (* true *) <<"t","r","u","e">>]
      [] key = (* replicate.com *) <<"r","e","p","l","i","c","a","t","e",".","c","o","m">>  -> [h \in {"Prefer"} |-> (* wait *) <<"w","a","i","t">>]
      [] key = (* together.xyz *) <<"t","o","g","e","t","h","e","r",".","x","y","z">>   -> NoHeaders
      [] key = (* hyperbolic.xyz *) <<"h","y","p","e","r","b","o","l","i","c",".","x","y","z">> -> NoHeaders

ReplicateInput(prompt) ==
    Dict(<< <<(* prompt *) <<"p","r","o","m","p","t">>, prompt>>, <<(* go_fast *) <<"g","o","_","f","a","s","t">>, Bool(TRUE)>>, <<(* num_outputs *) <<"n","u","m","_","o","u","t","p","u","t","s">>, PyInt(1)>>,
            <<(* aspect_ratio *) <<"a","s","p","e","c","t","_","r","a","t","i","o">>, Str((* 1:1 *) <<"1",":","1">>)>>, <<(* output_format *) <<"o","u","t","p","u","t","_","f","o","r","m","a","t">>, Str((* webp *) <<"w","e","b","p">>)>>,
            <<(* output_quality *) <<"o","u","t","p","u","t","_","q","u","a","l","i","t","y">>, PyInt(90)>> >>)

\* payload_map[key], given the evaluated fragment
payload_map(key, prompt, fragment) ==
    CASE key = (* huggingface.co *) <<"h","u","g","g","i","n","g","f","a","c","e",".","c","o">> -> Dict(<< <<(* inputs *) <<"i","n","p","u","t","s">>, prompt>> >>)
      [] key = (* replicate.com *) <<"r","e","p","l","i","c","a","t","e",".","c","o","m">>  -> Dict(DictSet(fragment, (* input *) <<"i","n","p","u","t">>, ReplicateInput(prompt)))
      [] key = (* together.xyz *) <<"t","o","g","e","t","h","e","r",".","x","y","z">>   ->
            Dict(<< <<(* model *) <<"m","o","d","e","l">>, Str((* black-forest-labs/FLUX.1-schnell-Free *) <<"b","l","a","c","k","-","f","o","r","e","s","t","-","l","a","b","s","/","F","L","U","X",".","1","-","s","c","h","n","e","l","l","-","F","r","e","e">>)>>,
                    <<(* prompt *) <<"p","r","o","m","p","t">>, prompt>>, <<(* width *) <<"w","i","d","t","h">>, PyInt(1024)>>, <<(* height *) <<"h","e","i","g","h","t">>, PyInt(1024)>>,
                    <<(* steps *) <<"s","t","e","p","s">>, PyInt(4)>>, <<<<"n">>, PyInt(1)>>,
                    <<(* response_format *) <<"r","e","s","p","o","n","s","e","_","f","o","r","m","a","t">>, Str((* b64_json *) <<"b","6","4","_","j","s","o","n">>)>> >>)
      [] key = (* hyperbolic.xyz *) <<"h","y","p","e","r","b","o","l","i","c",".","x","y","z">> ->
            Dict(<< <<(* model_name *) <<"m","o","d","e","l","_","n","a","m","e">>, Str((* FLUX.1-dev *) <<"F","L","U","X",".","1","-","d","e","v">>)>>, <<(* prompt *) <<"p","r","o","m","p","t">>, prompt>>,
                    <<(* steps *) <<"s","t","e","p","s">>, PyInt(25)>>, <<(* cfg_scale *) <<"c","f","g","_","s","c","a","l","e">>, PyInt(5)>>,
                    <<(* enable_refiner *) <<"e","n","a","b","l","e","_","r","e","f","i","n","e","r">>, Bool(FALSE)>>, <<(* height *) <<"h","e","i","g","h","t">>, PyInt(1024)>>,
                    <<(* width *) <<"w","i","d","t","h">>, PyInt(1024)>>, <<(* backend *) <<"b","a","c","k","e","n","d">>, Str((* auto *) <<"a","u","t","o">>)>> >>)

\* mutation: the loop without its break, the last matching key wins
SelectProvider_NoBreak(url) ==
    LET hits == {i \in 1..Len(ProviderKeys) : Contains(url, ProviderKeys[i])}
    IN  IF hits = {} THEN 0 ELSE CHOOSE i \in hits : \A j \in hits : j <= i

\* the loop for key in payload_map: if key in URL: ... break:
\* the index of the selected key, 0 when the loop ends without a match
SelectProvider(url) ==
    LET hits == {i \in 1..Len(ProviderKeys) : Contains(url, ProviderKeys[i])}
    IN  IF hits = {} THEN 0 ELSE CHOOSE i \in hits : \A j \in hits : i <= j

BaseHeaders(apiKey) ==
    [h \in {"Authorization", "Content-Type"} |->
        IF h = "Authorization" THEN (* Bearer  *) <<"B","e","a","r","e","r"," ">> \o apiKey ELSE (* application/json *) <<"a","p","p","l","i","c","a","t","i","o","n","/","j","s","o","n">>]

\* ------------------------------------------------------------------ inputs
ApiKey == (* sk-test *) <<"s","k","-","t","e","s","t">>
DefaultFragment ==
    (* "version": "5599ed30703defd1d160a25a63321b4dec97101d98b4674bcc56e41f62f35637", *) <<"\"","v","e","r","s","i","o","n","\"",":"," ","\"","5","5","9","9","e","d","3","0","7","0","3","d","e","f","d","1","d","1","6","0","a","2","5","a","6","3","3","2","1","b","4","d","e","c","9","7","1","0","1","d","9","8","b","4","6","7","4","b","c","c","5","6","e","4","1","f","6","2","f","3","5","6","3","7","\"",",">>
\* values an operator can put in BEFORE_INPUT_STRING: the default, nothing,
\* a fragment that names input itself, and two texts that are no mapping
BeforeInputStrings == { DefaultFragment, <<>>, (* "input": "x" *) <<"\"","i","n","p","u","t","\"",":"," ","\"","x","\"">>, (* oops *) <<"o","o","p","s">>, (* "version" *) <<"\"","v","e","r","s","i","o","n","\"">> }

Hosts == { ProviderKeys[i] : i \in 1..Len(ProviderKeys) } \cup { (* example.org *) <<"e","x","a","m","p","l","e",".","o","r","g">> }
RECURSIVE HostLists(_)
\* lists of n distinct hosts
HostLists(n) ==
    IF n = 0 THEN { <<>> }
    ELSE UNION { { Append(l, h) : h \in Hosts \ { l[i] : i \in 1..Len(l) } } :
                 l \in HostLists(n - 1) }
RECURSIVE JoinHosts(_, _)
JoinHosts(l, i) == IF i > Len(l) THEN <<>> ELSE <<"/">> \o l[i] \o JoinHosts(l, i + 1)
\* base URLs: one to MaxHosts host names behind a scheme, e.g. a proxy path
BaseUrls == { (* https:/ *) <<"h","t","t","p","s",":","/">> \o JoinHosts(l, 1) \o (* /v1 *) <<"/","v","1">> :
                l \in UNION { HostLists(n) : n \in 1..MaxHosts } }

Prompts == { Str((* a cat *) <<"a"," ","c","a","t">>) }

Signatures == { <<255, 216, 255>>, <<137, 80, 78, 71>>, <<71, 73, 70>>,
                <<82, 73, 70, 70>>, <<0, 1>> }
RECURSIVE Padding(_)
Padding(n) == IF n = 0 THEN <<>> ELSE <<170>> \o Padding(n - 1)
\* response bodies: nothing, or a signature followed by up to MaxTail bytes
Contents == { <<>> } \cup { sig \o Padding(n) : sig \in Signatures, n \in 0..MaxTail }

ImageTypes == { (* image/png *) <<"i","m","a","g","e","/","p","n","g">>, (* image/webp *) <<"i","m","a","g","e","/","w","e","b","p">>, (* image/jpeg *) <<"i","m","a","g","e","/","j","p","e","g">> }
JsonTypes == { (* application/json *) <<"a","p","p","l","i","c","a","t","i","o","n","/","j","s","o","n">>, (* application/json; charset=utf-8 *) <<"a","p","p","l","i","c","a","t","i","o","n","/","j","s","o","n",";"," ","c","h","a","r","s","e","t","=","u","t","f","-","8">> }
OtherTypes == { (* text/html *) <<"t","e","x","t","/","h","t","m","l">>, (* application/octet-stream *) <<"a","p","p","l","i","c","a","t","i","o","n","/","o","c","t","e","t","-","s","t","r","e","a","m">> }
ContentTypeHeader(ct) == [h \in {"Content-Type"} |-> ct]

\* b64_json values: bare base64 text, or the same behind a data-URI prefix
Payloads == { b64encode(c) : c \in Contents } \cup
            { (* data:image/png;base64, *) <<"d","a","t","a",":","i","m","a","g","e","/","p","n","g",";","b","a","s","e","6","4",",">> \o b64encode(c) : c \in Contents }

ImageUrl == (* https://x/y.jpeg *) <<"h","t","t","p","s",":","/","/","x","/","y",".","j","p","e","g">>
\* decoded JSON bodies a provider may answer with
JsonBodies ==
    { Dict(<< <<(* data *) <<"d","a","t","a">>, List(<< Dict(<< <<(* b64_json *) <<"b","6","4","_","j","s","o","n">>, Str(p)>> >>) >>)>> >>) : p \in Payloads }
    \cup
    { Dict(<< <<(* output *) <<"o","u","t","p","u","t">>, List(<< Str(ImageUrl) >>)>> >>),
      Dict(<< <<(* output *) <<"o","u","t","p","u","t">>, Str(ImageUrl)>> >>),
      Dict(<< <<(* output *) <<"o","u","t","p","u","t">>, List(<<>>)>> >>),
      Dict(<< <<(* data *) <<"d","a","t","a">>, List(<<>>)>> >>),
      Dict(<< <<(* data *) <<"d","a","t","a">>, List(<< Dict(<< <<(* url *) <<"u","r","l">>, Str(ImageUrl)>> >>) >>)>> >>),
      Dict(<< <<(* data *) <<"d","a","t","a">>, List(<< Dict(<< <<(* b64_json *) <<"b","6","4","_","j","s","o","n">>, None>> >>) >>)>> >>),
      Dict(<< <<(* error *) <<"e","r","r","o","r">>, Str((* boom *) <<"b","o","o","m">>)>> >>),
      List(<<>>),
      PyInt(0) }
\* response.json() of a body that is no JSON raises JSONDecodeError, a
\* RequestException in current requests and a plain ValueError in older ones
Undecodable == { << "invalid", c >> : c \in {"RequestException", "Exception"} }

Response(status, hdrs, content, json) ==
    [status |-> status, headers |-> hdrs, content |-> content, json |-> json]
NoResponse == Response(0, NoHeaders, <<>>, None)

TransportErrors == { RequestException((* Connection refused *) <<"C","o","n","n","e","c","t","i","o","n"," ","r","e","f","u","s","e","d">>), RequestException((* Read timed out *) <<"R","e","a","d"," ","t","i","m","e","d"," ","o","u","t">>) }
PostResponses ==
    { Response(500, ContentTypeHeader((* application/json *) <<"a","p","p","l","i","c","a","t","i","o","n","/","j","s","o","n">>), <<>>, Dict(<<>>)) }
    \cup { Response(200, NoHeaders, <<>>, None) }
    \cup { Response(200, ContentTypeHeader(ct), <<>>, None) : ct \in OtherTypes }
    \cup { Response(200, ContentTypeHeader(ct), c, None) : ct \in ImageTypes, c \in Contents }
    \cup { Response(200, ContentTypeHeader(ct), <<>>, j) :
             ct \in JsonTypes, j \in JsonBodies \cup Undecodable }
GetResponses ==
    { Response(404, NoHeaders, <<>>, None), Response(200, NoHeaders, <<0, 1>>, None) }
    \cup { Response(200, ContentTypeHeader(ct), c, None) :
             ct \in {(* image/jpeg *) <<"i","m","a","g","e","/","j","p","e","g">>, (* binary/octet-stream *) <<"b","i","n","a","r","y","/","o","c","t","e","t","-","s","t","r","e","a","m">>}, c \in Contents }

\* ---------------------------------------------------------------- handlers
HeadersGet(hdrs, name, default) == IF name \in DOMAIN hdrs THEN hdrs[name] ELSE default

\* response.raise_for_status() raises HTTPError for 4xx and 5xx
RaisesForStatus(status) == 400 <= status /\ status < 600
HTTPError == RequestException((* Server Error *) <<"S","e","r","v","e","r"," ","E","r","r","o","r">>)

\* mutation: the gif and webp signatures exchanged
get_img_extension_Swapped(img_data) ==
    IF StartsWith(img_data, (* /9j/ *) <<"/","9","j","/">>) THEN Str((* jpeg *) <<"j","p","e","g">>)
    ELSE IF StartsWith(img_data, (* iVBOR *) <<"i","V","B","O","R">>) THEN Str((* png *) <<"p","n","g">>)
    ELSE IF StartsWith(img_data, (* R0lG *) <<"R","0","l","G">>) THEN Str((* webp *) <<"w","e","b","p">>)
    ELSE IF StartsWith(img_data, (* UklGR *) <<"U","k","l","G","R">>) THEN Str((* gif *) <<"g","i","f">>)
    ELSE None

get_img_extension(img_data) ==
    IF StartsWith(img_data, (* /9j/ *) <<"/","9","j","/">>) THEN Str((* jpeg *) <<"j","p","e","g">>)
    ELSE IF StartsWith(img_data, (* iVBOR *) <<"i","V","B","O","R">>) THEN Str((* png *) <<"p","n","g">>)
    ELSE IF StartsWith(img_data, (* R0lG *) <<"R","0","l","G">>) THEN Str((* gif *) <<"g","i","f">>)
    ELSE IF StartsWith(img_data, (* UklGR *) <<"U","k","l","G","R">>) THEN Str((* webp *) <<"w","e","b","p">>)
    ELSE None

ImageMarkdown(uri, ext) == (* ![Image]( *) <<"!","[","I","m","a","g","e","]","(">> \o uri \o (* )\n{U+0060}GeneratedImage. *) <<")","\n",Backtick,"G","e","n","e","r","a","t","e","d","I","m","a","g","e",".">> \o ext \o <<Backtick>>

\* mutation: the extension taken from the wrong side of the slash
handle_image_response_FirstPart(response) ==
    LET content_type == HeadersGet(response.headers, "Content-Type", <<>>)
        img_ext == IF Contains(content_type, (* image/ *) <<"i","m","a","g","e","/">>)
                   THEN SubSeq(content_type, 1, FindFrom(content_type, <<"/">>, 1) - 1)
                   ELSE (* png *) <<"p","n","g">>
        image_base64 == b64encode(response.content)
    IN  ImageMarkdown((* data: *) <<"d","a","t","a",":">> \o content_type \o (* ;base64, *) <<";","b","a","s","e","6","4",",">> \o image_base64, img_ext)

handle_image_response(response) ==
    LET content_type == HeadersGet(response.headers, "Content-Type", <<>>)
        img_ext == IF Contains(content_type, (* image/ *) <<"i","m","a","g","e","/">>)
                   THEN SplitLast(content_type, "/") ELSE (* png *) <<"p","n","g">>
        image_base64 == b64encode(response.content)
    IN  ImageMarkdown((* data: *) <<"d","a","t","a",":">> \o content_type \o (* ;base64, *) <<";","b","a","s","e","6","4",",">> \o image_base64, img_ext)

UnexpectedFormat == (* Error: Unexpected response format for the image provider! {resp} *) <<"E","r","r","o","r",":"," ","U","n","e","x","p","e","c","t","e","d"," ","r","e","s","p","o","n","s","e"," ","f","o","r","m","a","t"," ","f","o","r"," ","t","h","e"," ","i","m","a","g","e"," ","p","r","o","v","i","d","e","r","!"," ","{","r","e","s","p","}">>

\* requests.get rejects a URL without an http(s) scheme before connecting
IsHttpUrl(u) == TypeOf(u) = "str" /\ (StartsWith(ValueOf(u), (* http:// *) <<"h","t","t","p",":","/","/">>) \/ StartsWith(ValueOf(u), (* https:// *) <<"h","t","t","p","s",":","/","/">>))
MissingSchema == RequestException((* Invalid URL: No scheme supplied *) <<"I","n","v","a","l","i","d"," ","U","R","L",":"," ","N","o"," ","s","c","h","e","m","e"," ","s","u","p","p","l","i","e","d">>)

\* handle_json_response up to the point where img_data is known:
\*   "raise"  an exception leaves the handler
\*   "return" the handler returns v
\*   "get"    url_to_img_data(url) is called
\*   "data"   img_data is v
JsonBegin(response) ==
    IF TypeOf(response.json) = "invalid" THEN
        [k |-> "raise", exc |-> [cls |-> ValueOf(response.json), msg |-> (* Expecting value *) <<"E","x","p","e","c","t","i","n","g"," ","v","a","l","u","e">>]]
    ELSE
    LET resp == response.json
        hasOutput == PyIn((* output *) <<"o","u","t","p","u","t">>, resp)
        output == PyGetKey(resp, (* output *) <<"o","u","t","p","u","t">>)
        img_url == PyGetFirst(output.v)
        hasData == PyIn((* data *) <<"d","a","t","a">>, resp)
        data == PyGetKey(resp, (* data *) <<"d","a","t","a">>)
        first == PyGetFirst(data.v)
        hasB64 == PyIn((* b64_json *) <<"b","6","4","_","j","s","o","n">>, first.v)
        b64 == PyGetKey(first.v, (* b64_json *) <<"b","6","4","_","j","s","o","n">>)
    IN  IF ~hasOutput.ok THEN [k |-> "raise", exc |-> hasOutput.exc]
        ELSE IF hasOutput.v THEN
            IF ~output.ok THEN [k |-> "raise", exc |-> output.exc]
            ELSE IF ~img_url.ok THEN [k |-> "raise", exc |-> img_url.exc]
            ELSE [k |-> "get", url |-> img_url.v]
        ELSE IF ~hasData.ok THEN [k |-> "raise", exc |-> hasData.exc]
        ELSE IF ~hasData.v THEN [k |-> "return", v |-> UnexpectedFormat]
        ELSE IF ~data.ok THEN [k |-> "raise", exc |-> data.exc]
        ELSE IF ~first.ok THEN [k |-> "raise", exc |-> first.exc]
        ELSE IF ~hasB64.ok THEN [k |-> "raise", exc |-> hasB64.exc]
        ELSE IF ~hasB64.v THEN [k |-> "return", v |-> UnexpectedFormat]
        ELSE IF ~b64.ok THEN [k |-> "raise", exc |-> b64.exc]
        ELSE [k |-> "data", v |-> b64.v]

\* the split of ;base64, with its except IndexError: pass
StripPrefix(img_data) ==
    LET parts == SplitSecond(img_data, (* ;base64, *) <<";","b","a","s","e","6","4",",">>)
    IN  IF parts.ok THEN parts.v ELSE img_data

\* handle_json_response from the split on
JsonEnd(resp, img_data) ==
    IF TypeOf(img_data) # "str" THEN
        [k |-> "raise", exc |-> OtherException((* object has no attribute 'split' *) <<"o","b","j","e","c","t"," ","h","a","s"," ","n","o"," ","a","t","t","r","i","b","u","t","e"," ",Apostrophe,"s","p","l","i","t",Apostrophe>>)]
    ELSE
    LET stripped == StripPrefix(ValueOf(img_data))
        img_ext == get_img_extension(Prefix(stripped, 9))
    IN  IF img_ext = None THEN
            [k |-> "return",
             v |-> (* Error: Unsupported image format! \n\n  *) <<"E","r","r","o","r",":"," ","U","n","s","u","p","p","o","r","t","e","d"," ","i","m","a","g","e"," ","f","o","r","m","a","t","!"," ","\n","\n"," ">> \o Format(resp)
                   \o (*  \n\n  *) <<" ","\n","\n"," ">> \o stripped]
        ELSE [k |-> "return",
              v |-> ImageMarkdown((* data:image/ *) <<"d","a","t","a",":","i","m","a","g","e","/">> \o ValueOf(img_ext) \o (* ;base64, *) <<";","b","a","s","e","6","4",",">> \o stripped, ValueOf(img_ext))]

\* url_to_img_data after a GET that answered
url_to_img_data(response) ==
    LET content_type == HeadersGet(response.headers, "Content-Type", (* application/octet-stream *) <<"a","p","p","l","i","c","a","t","i","o","n","/","o","c","t","e","t","-","s","t","r","e","a","m">>)
    IN  (* data: *) <<"d","a","t","a",":">> \o content_type \o (* ;base64, *) <<";","b","a","s","e","6","4",",">> \o b64encode(response.content)

\* mutation: the JSON test matching on the type application alone
Dispatch_AnyApplication(content_type) ==
    IF Contains(content_type, (* application/ *) <<"a","p","p","l","i","c","a","t","i","o","n","/">>) THEN "json"
    ELSE IF Contains(content_type, (* image/ *) <<"i","m","a","g","e","/">>) THEN "image"
    ELSE "other"

\* the dispatch of non_stream_response on the Content-Type of the POST response
Dispatch(content_type) ==
    IF Contains(content_type, (* application/json *) <<"a","p","p","l","i","c","a","t","i","o","n","/","j","s","o","n">>) THEN "json"
    ELSE IF Contains(content_type, (* image/ *) <<"i","m","a","g","e","/">>) THEN "image"
    ELSE "other"

\* the except clauses of non_stream_response
Catch(e) ==
    IF e.cls = "RequestException" THEN (* Error: Request failed:  *) <<"E","r","r","o","r",":"," ","R","e","q","u","e","s","t"," ","f","a","i","l","e","d",":"," ">> \o e.msg
    ELSE (* Error:  *) <<"E","r","r","o","r",":"," ">> \o e.msg

UnsupportedUrl ==
    (* Error: Unsupported API base URL! Remember, that's the beauty of open-source: you can add your own... *) <<"E","r","r","o","r",":"," ","U","n","s","u","p","p","o","r","t","e","d"," ","A","P","I"," ","b","a","s","e"," ","U","R","L","!"," ","R","e","m","e","m","b","e","r",","," ","t","h","a","t",Apostrophe,"s"," ","t","h","e"," ","b","e","a","u","t","y"," ","o","f"," ","o","p","e","n","-","s","o","u","r","c","e",":"," ","y","o","u"," ","c","a","n"," ","a","d","d"," ","y","o","u","r"," ","o","w","n",".",".",".">>

\* ------------------------------------------------------------------- state
VARIABLES
    valves,     \* the configuration, fixed at construction
    pc,         \* position of the current call of pipe
    arg,        \* the body the host passed to pipe
    body,       \* the body after pipe's own assignment to it
    selected,   \* index in ProviderKeys of the profile the loop chose, 0 for none
    headers,    \* the request headers built by pipe
    payload,    \* the request body built by pipe
    net,        \* the network calls made during this call of pipe, in order
    response,   \* the response to the POST
    img_url,    \* the argument of url_to_img_data
    fetched,    \* the response to url_to_img_data's GET
    img_data,   \* handle_json_response's img_data after the split
    called,     \* the handlers invoked during this call of pipe
    result      \* what pipe gave back to the host

vars == << valves, pc, arg, body, selected, headers, payload, net, response,
           img_url, fetched, img_data, called, result >>

NoResult == [kind |-> "none", v |-> <<>>]
\* pipe returned the string v
Returned(v) == [kind |-> "str", v |-> v]
\* pipe returned the generator of stream_response, which yields v once
Generator(v) == [kind |-> "generator", v |-> <<v>>]
\* an exception left pipe
Raised(e) == [kind |-> "raise", v |-> e.msg]

\* the last statement of pipe: stream_response when body says so, else the string
Deliver(v) == IF body.stream THEN Generator(v) ELSE Returned(v)

Idle ==
    /\ pc = "idle"
    /\ arg = [stream |-> FALSE, prompt |-> None]
    /\ body = [stream |-> FALSE, prompt |-> None]
    /\ selected = 0
    /\ headers = NoHeaders
    /\ payload = None
    /\ net = <<>>
    /\ response = NoResponse
    /\ img_url = None
    /\ fetched = NoResponse
    /\ img_data = None
    /\ called = {}
    /\ result = NoResult

Init ==
    /\ valves \in [FLUX_SCHNELL_API_KEY : {ApiKey},
                   FLUX_SCHNELL_API_BASE_URL : BaseUrls,
                   BEFORE_INPUT_STRING : BeforeInputStrings]
    /\ Idle

\* pipe, from its entry to the call of non_stream_response: the headers, the
\* eager payload_map (with its eval), the selection loop and the early return
pipe(v, prompt) ==
    LET base == BaseHeaders(v.FLUX_SCHNELL_API_KEY)
        fragment == EvalFragment(v.BEFORE_INPUT_STRING)
        key == SelectProvider(v.FLUX_SCHNELL_API_BASE_URL)
    IN  IF ~fragment.ok THEN
            [pc |-> "done", result |-> Raised(fragment.exc), selected |-> 0,
             headers |-> base, payload |-> None]
        ELSE IF key = 0 THEN
            [pc |-> "done", result |-> Returned(UnsupportedUrl), selected |-> 0,
             headers |-> base, payload |-> None]
        ELSE
            [pc |-> "post", result |-> NoResult, selected |-> key,
             headers |-> headers_map(ProviderKeys[key]) @@ base,
             payload |-> payload_map(ProviderKeys[key], prompt, fragment.v)]

Pipe ==
    /\ pc = "idle"
    /\ \E stream \in BOOLEAN, prompt \in Prompts :
        LET out == pipe(valves, prompt)
        IN  /\ arg' = [stream |-> stream, prompt |-> prompt]
            /\ body' = [stream |-> FALSE, prompt |-> prompt]
            /\ pc' = out.pc
            /\ result' = out.result
            /\ selected' = out.selected
            /\ headers' = out.headers
            /\ payload' = out.payload
    /\ UNCHANGED << valves, net, response, img_url, fetched, img_data, called >>

PostCall == [method |-> "POST", url |-> valves.FLUX_SCHNELL_API_BASE_URL,
             headers |-> headers, json |-> payload]
GetCall(url) == [method |-> "GET", url |-> url,
                 headers |-> [h \in {"Authorization"} |->
                                (* Bearer  *) <<"B","e","a","r","e","r"," ">> \o valves.FLUX_SCHNELL_API_KEY],
                 json |-> None]

\* non_stream_response ends with the string v
Finish(v) ==
    /\ result' = Deliver(v)
    /\ pc' = "done"

\* handle_json_response from the split on, inside non_stream_response's try
FinishJson(resp, data) ==
    LET end == JsonEnd(resp, data)
    IN  /\ img_data' = IF TypeOf(data) = "str" THEN Str(StripPrefix(ValueOf(data))) ELSE data
        /\ Finish(IF end.k = "raise" THEN Catch(end.exc) ELSE end.v)

\* non_stream_response: the POST, and what follows up to the next network call
Post ==
    /\ pc = "post"
    /\ net' = Append(net, PostCall)
    /\ \/ \E e \in TransportErrors :
            /\ Finish(Catch(e))
            /\ UNCHANGED << response, img_url, img_data, called >>
       \/ \E r \in PostResponses :
            /\ response' = r
            /\ IF RaisesForStatus(r.status) THEN
                   /\ Finish(Catch(HTTPError))
                   /\ UNCHANGED << img_url, img_data, called >>
               ELSE
               LET content_type == HeadersGet(r.headers, "Content-Type", <<>>)
                   branch == Dispatch(content_type)
                   begin == JsonBegin(r)
               IN  CASE branch = "other" ->
                        /\ Finish((* Error: Unsupported content type  *) <<"E","r","r","o","r",":"," ","U","n","s","u","p","p","o","r","t","e","d"," ","c","o","n","t","e","n","t"," ","t","y","p","e"," ">> \o content_type)
                        /\ UNCHANGED << img_url, img_data, called >>
                     [] branch = "image" ->
                        /\ called' = called \cup {"handle_image_response"}
                        /\ Finish(handle_image_response(r))
                        /\ UNCHANGED << img_url, img_data >>
                     [] branch = "json" ->
                        /\ called' = called \cup {"handle_json_response"}
                             \cup (IF begin.k = "get" THEN {"url_to_img_data"} ELSE {})
                        /\ CASE begin.k = "raise" ->
                                  /\ Finish(Catch(begin.exc))
                                  /\ UNCHANGED << img_url, img_data >>
                             [] begin.k = "return" ->
                                  /\ Finish(begin.v)
                                  /\ UNCHANGED << img_url, img_data >>
                             [] begin.k = "data" ->
                                  /\ FinishJson(r.json, begin.v)
                                  /\ UNCHANGED img_url
                             [] begin.k = "get" ->
                                  /\ img_url' = begin.url
                                  /\ IF IsHttpUrl(begin.url)
                                     THEN pc' = "get" /\ UNCHANGED result
                                     ELSE Finish(Catch(MissingSchema))
                                  /\ UNCHANGED img_data
    /\ UNCHANGED << valves, arg, body, selected, headers, payload, fetched >>

\* url_to_img_data's GET and the rest of handle_json_response
Get ==
    /\ pc = "get"
    /\ net' = Append(net, GetCall(ValueOf(img_url)))
    /\ \/ \E e \in TransportErrors :
            /\ Finish(Catch(e))
            /\ UNCHANGED << fetched, img_data >>
       \/ \E r \in GetResponses :
            /\ fetched' = r
            /\ IF RaisesForStatus(r.status) THEN
                   /\ Finish(Catch(HTTPError))
                   /\ UNCHANGED img_data
               ELSE FinishJson(response.json, Str(url_to_img_data(r)))
    /\ UNCHANGED << valves, arg, body, selected, headers, payload, response, img_url, called >>

\* the host has the result; the adapter is ready for the next call
NextCall ==
    /\ pc = "done"
    /\ pc' = "idle"
    /\ arg' = [stream |-> FALSE, prompt |-> None]
    /\ body' = [stream |-> FALSE, prompt |-> None]
    /\ selected' = 0
    /\ headers' = NoHeaders
    /\ payload' = None
    /\ net' = <<>>
    /\ response' = NoResponse
    /\ img_url' = None
    /\ fetched' = NoResponse
    /\ img_data' = None
    /\ called' = {}
    /\ result' = NoResult
    /\ UNCHANGED valves

Next == Pipe \/ Post \/ Get \/ NextCall

Spec == Init /\ [][Next]_vars

\* ------------------------------------- the raw-image normalizer on its own
\* responses handle_image_response may be given when called directly
ImageCallResponses ==
    { Response(200, NoHeaders, c, None) : c \in Contents } \cup
    { Response(200, ContentTypeHeader(ct), c, None) :
        ct \in ImageTypes \cup OtherTypes, c \in Contents }

InitImage ==
    /\ valves \in [FLUX_SCHNELL_API_KEY : {ApiKey},
                   FLUX_SCHNELL_API_BASE_URL : { (* https://api.together.xyz/v1/images/generations *) <<"h","t","t","p","s",":","/","/","a","p","i",".","t","o","g","e","t","h","e","r",".","x","y","z","/","v","1","/","i","m","a","g","e","s","/","g","e","n","e","r","a","t","i","o","n","s">> },
                   BEFORE_INPUT_STRING : {DefaultFragment}]
    /\ pc = "image"
    /\ arg = [stream |-> FALSE, prompt |-> None]
    /\ body = [stream |-> FALSE, prompt |-> None]
    /\ selected = 0
    /\ headers = NoHeaders
    /\ payload = None
    /\ net = <<>>
    /\ response \in ImageCallResponses
    /\ img_url = None
    /\ fetched = NoResponse
    /\ img_data = None
    /\ called = {}
    /\ result = NoResult

\* a call of handle_image_response(response)
HandleImage ==
    /\ pc = "image"
    /\ called' = called \cup {"handle_image_response"}
    /\ result' = Returned(handle_image_response(response))
    /\ pc' = "imaged"
    /\ UNCHANGED << valves, arg, body, selected, headers, payload, net, response,
                    img_url, fetched, img_data >>

NextImage == HandleImage

SpecImage == InitImage /\ [][NextImage]_vars

\* ============================================================== properties
BaseUrl == valves.FLUX_SCHNELL_API_BASE_URL
NoKeyInUrl == \A i \in 1..Len(ProviderKeys) : ~Contains(BaseUrl, ProviderKeys[i])
\* the first key, in table order, that occurs in the base URL
FirstKey ==
    CHOOSE i \in 1..Len(ProviderKeys) :
        /\ Contains(BaseUrl, ProviderKeys[i])
        /\ \A j \in 1..(i - 1) : ~Contains(BaseUrl, ProviderKeys[j])
Posts == { n \in 1..Len(net) : net[n].method = "POST" }
Gets == { n \in 1..Len(net) : net[n].method = "GET" }
DeclaredType == HeadersGet(response.headers, "Content-Type", <<>>)
\* the media type of a Content-Type value: the text before its parameters
MediaType(ct) ==
    LET semi == FindFrom(ct, <<";">>, 1)
    IN  IF semi = 0 THEN ct ELSE SubSeq(ct, 1, semi - 1)
\* the POST was answered with a 2xx status
PostSucceeded == response # NoResponse /\ ~RaisesForStatus(response.status)
IsJsonResponse == PostSucceeded /\ MediaType(DeclaredType) = (* application/json *) <<"a","p","p","l","i","c","a","t","i","o","n","/","j","s","o","n">>
Decoded == TypeOf(response.json) # "invalid"
HasField(obj, k) == TypeOf(obj) = "dict" /\ HasKey(ValueOf(obj), k)
HasOutput == HasField(response.json, (* output *) <<"o","u","t","p","u","t">>)
\* the JSON has a data array whose first element has b64_json
HasB64 ==
    /\ HasField(response.json, (* data *) <<"d","a","t","a">>)
    /\ LET data == Lookup(ValueOf(response.json), (* data *) <<"d","a","t","a">>)
       IN  /\ TypeOf(data) = "list"
           /\ Len(ValueOf(data)) > 0
           /\ HasField(ValueOf(data)[1], (* b64_json *) <<"b","6","4","_","j","s","o","n">>)

\* C1: generate is total: for every configuration, conversation and outcome of
\* the network calls, no exception leaves the call; it returns a string or a
\* lazy sequence of exactly one string.
C1_Total ==
    pc = "done" =>
        \/ result.kind = "str"
        \/ result.kind = "generator" /\ Len(result.v) = 1

\* C2: when the base URL contains none of the four keys, generate returns an
\* error string containing "Unsupported API base URL" and makes no network call.
C2_UnsupportedUrl ==
    (pc = "done" /\ NoKeyInUrl) =>
        /\ result.kind = "str"
        /\ Contains(result.v, (* Unsupported API base URL *) <<"U","n","s","u","p","p","o","r","t","e","d"," ","A","P","I"," ","b","a","s","e"," ","U","R","L">>)
        /\ net = <<>>

\* C3: when the caller requests streaming and a profile matches, generate
\* returns a lazy sequence that yields exactly one element, the string of the
\* non-streaming call.
C3_StreamYieldsOnce ==
    (pc = "done" /\ arg.stream /\ ~NoKeyInUrl) =>
        /\ result.kind = "generator"
        /\ Len(result.v) = 1

ExpectedHeaders(i) ==
    LET base == ("Authorization" :> ((* Bearer  *) <<"B","e","a","r","e","r"," ">> \o valves.FLUX_SCHNELL_API_KEY))
                @@ ("Content-Type" :> (* application/json *) <<"a","p","p","l","i","c","a","t","i","o","n","/","j","s","o","n">>)
    IN  CASE i = 1 -> base @@ ("x-wait-for-model" :> (* true *) <<"t","r","u","e">>)
          [] i = 2 -> base @@ ("Prefer" :> (* wait *) <<"w","a","i","t">>)
          [] OTHER -> base
Field(obj, k) == Lookup(ValueOf(obj), k)
IsBodyOf(i, b) ==
    CASE i = 1 -> b = Dict(<< <<(* inputs *) <<"i","n","p","u","t","s">>, arg.prompt>> >>)
      [] i = 2 -> /\ HasField(b, (* input *) <<"i","n","p","u","t">>)
                  /\ HasField(Field(b, (* input *) <<"i","n","p","u","t">>), (* prompt *) <<"p","r","o","m","p","t">>)
                  /\ Field(Field(b, (* input *) <<"i","n","p","u","t">>), (* prompt *) <<"p","r","o","m","p","t">>) = arg.prompt
                  /\ Field(Field(b, (* input *) <<"i","n","p","u","t">>), (* output_format *) <<"o","u","t","p","u","t","_","f","o","r","m","a","t">>) = Str((* webp *) <<"w","e","b","p">>)
                  /\ ~HasField(b, (* inputs *) <<"i","n","p","u","t","s">>) /\ ~HasField(b, (* model *) <<"m","o","d","e","l">>) /\ ~HasField(b, (* model_name *) <<"m","o","d","e","l","_","n","a","m","e">>)
      [] i = 3 -> /\ HasField(b, (* model *) <<"m","o","d","e","l">>)
                  /\ Field(b, (* model *) <<"m","o","d","e","l">>) = Str((* black-forest-labs/FLUX.1-schnell-Free *) <<"b","l","a","c","k","-","f","o","r","e","s","t","-","l","a","b","s","/","F","L","U","X",".","1","-","s","c","h","n","e","l","l","-","F","r","e","e">>)
                  /\ Field(b, (* prompt *) <<"p","r","o","m","p","t">>) = arg.prompt
                  /\ Field(b, (* response_format *) <<"r","e","s","p","o","n","s","e","_","f","o","r","m","a","t">>) = Str((* b64_json *) <<"b","6","4","_","j","s","o","n">>)
                  /\ ~HasField(b, (* inputs *) <<"i","n","p","u","t","s">>) /\ ~HasField(b, (* input *) <<"i","n","p","u","t">>) /\ ~HasField(b, (* model_name *) <<"m","o","d","e","l","_","n","a","m","e">>)
      [] i = 4 -> /\ HasField(b, (* model_name *) <<"m","o","d","e","l","_","n","a","m","e">>)
                  /\ Field(b, (* model_name *) <<"m","o","d","e","l","_","n","a","m","e">>) = Str((* FLUX.1-dev *) <<"F","L","U","X",".","1","-","d","e","v">>)
                  /\ Field(b, (* prompt *) <<"p","r","o","m","p","t">>) = arg.prompt
                  /\ ~HasField(b, (* inputs *) <<"i","n","p","u","t","s">>) /\ ~HasField(b, (* input *) <<"i","n","p","u","t">>) /\ ~HasField(b, (* model *) <<"m","o","d","e","l">>)

\* C4: provider selection is first-match over the ordered keys: the profile
\* selected is that of the first key occurring in the base URL, also when
\* several occur, and every request sent carries that profile's body and the
\* Authorization and Content-Type headers plus that profile's extra headers only.
C4_FirstMatch ==
    /\ selected # 0 => (~NoKeyInUrl /\ selected = FirstKey)
    /\ \A n \in Posts :
         /\ ~NoKeyInUrl
         /\ net[n].url = BaseUrl
         /\ net[n].headers = ExpectedHeaders(FirstKey)
         /\ IsBodyOf(FirstKey, net[n].json)

\* a request was sent for a URL naming several providers, the selected one not
\* being the one the URL text names first
C4_Witness ==
    /\ Posts # {}
    /\ \E j \in 1..Len(ProviderKeys) :
         /\ j > selected
         /\ Contains(BaseUrl, ProviderKeys[j])
         /\ FindFrom(BaseUrl, ProviderKeys[j], 1) < FindFrom(BaseUrl, ProviderKeys[selected], 1)

\* C5: within one generate call with a matching profile exactly one POST goes
\* to the base URL; a GET follows at most once and only after a 2xx JSON answer
\* with an output field; with no output field but data[0].b64_json there is no
\* fetch; after a failed POST there is no further network call.
C5_OnePostAtMostOneGet ==
    (pc = "done" /\ ~NoKeyInUrl) =>
        /\ Cardinality(Posts) = 1
        /\ net[1].method = "POST" /\ net[1].url = BaseUrl
        /\ Cardinality(Gets) <= 1
        /\ Gets # {} => (IsJsonResponse /\ Decoded /\ HasOutput)
        /\ (IsJsonResponse /\ Decoded /\ ~HasOutput /\ HasB64) => Gets = {}
        /\ ~PostSucceeded => Len(net) = 1

B64Index(c) == (CHOOSE i \in 1..Len(B64Alphabet) : B64Alphabet[i] = c) - 1
RECURSIVE b64decode(_)
\* the bytes a base64 text stands for
b64decode(s) ==
    IF Len(s) < 4 THEN <<>>
    ELSE LET a == B64Index(s[1])
             b == B64Index(s[2])
         IN  IF s[3] = "=" THEN << a * 4 + (b \div 16) >>
             ELSE IF s[4] = "=" THEN
                 << a * 4 + (b \div 16), (b % 16) * 16 + (B64Index(s[3]) \div 4) >>
             ELSE << a * 4 + (b \div 16), (b % 16) * 16 + (B64Index(s[3]) \div 4),
                     (B64Index(s[3]) % 4) * 64 + B64Index(s[4]) >>
                  \o b64decode(SubSeq(s, 5, Len(s)))

Markdown(mime, data, ext) ==
    (* ![Image](data: *) <<"!","[","I","m","a","g","e","]","(","d","a","t","a",":">> \o mime \o (* ;base64, *) <<";","b","a","s","e","6","4",",">> \o data \o (* )\n{U+0060}GeneratedImage. *) <<")","\n",Backtick,"G","e","n","e","r","a","t","e","d","I","m","a","g","e",".">> \o ext \o <<Backtick>>

\* C6: the raw-image normalizer returns the markdown image of
\* data:<content-type>;base64,<payload> and the hint GeneratedImage.<ext>, where
\* decoding <payload> gives back the response bytes and <ext> is the subtype of
\* an image/<ext> content type, png when the header is absent or no image type.
C6_RawImage ==
    pc = "imaged" =>
        LET out == result.v
            ext == IF StartsWith(DeclaredType, (* image/ *) <<"i","m","a","g","e","/">>)
                   THEN SubSeq(DeclaredType, Len((* image/ *) <<"i","m","a","g","e","/">>) + 1, Len(DeclaredType))
                   ELSE (* png *) <<"p","n","g">>
            from == FindFrom(out, (* ;base64, *) <<";","b","a","s","e","6","4",",">>, 1) + Len((* ;base64, *) <<";","b","a","s","e","6","4",",">>)
            to == FindFrom(out, <<")">>, from)
            embedded == SubSeq(out, from, to - 1)
        IN  /\ result.kind = "str"
            /\ to # 0
            /\ out = Markdown(DeclaredType, embedded, ext)
            /\ b64decode(embedded) = response.content

\* the normalizer has handled an image/webp response of a RIFF signature
C6_Witness ==
    /\ pc = "imaged"
    /\ DeclaredType = (* image/webp *) <<"i","m","a","g","e","/","w","e","b","p">>
    /\ response.content = <<82, 73, 70, 70>>
    /\ result.v = Markdown((* image/webp *) <<"i","m","a","g","e","/","w","e","b","p">>, (* UklGRg== *) <<"U","k","l","G","R","g","=","=">>, (* webp *) <<"w","e","b","p">>)

\* the payload handle_json_response obtained, before the split
ObtainedPayload ==
    IF "url_to_img_data" \in called THEN url_to_img_data(fetched)
    ELSE ValueOf(Field(ValueOf(Field(response.json, (* data *) <<"d","a","t","a">>))[1], (* b64_json *) <<"b","6","4","_","j","s","o","n">>))
\* the text after a data:...;base64, prefix, the text itself when there is none
WithoutPrefix(p) ==
    LET at == FindFrom(p, (* ;base64, *) <<";","b","a","s","e","6","4",",">>, 1)
    IN  IF at = 0 THEN p ELSE SubSeq(p, at + Len((* ;base64, *) <<";","b","a","s","e","6","4",",">>), Len(p))
KnownFormats == { << (* /9j/ *) <<"/","9","j","/">>, (* jpeg *) <<"j","p","e","g">> >>, << (* iVBOR *) <<"i","V","B","O","R">>, (* png *) <<"p","n","g">> >>,
                  << (* R0lG *) <<"R","0","l","G">>, (* gif *) <<"g","i","f">> >>, << (* UklGR *) <<"U","k","l","G","R">>, (* webp *) <<"w","e","b","p">> >> }
\* handle_json_response has a string payload and generate is over
PayloadKnown == pc = "done" /\ TypeOf(img_data) = "str"

\* C7: the payload from the output fetch or from b64_json, with its
\* data:...;base64, prefix stripped when it has one, gets the extension jpeg,
\* png, gif or webp exactly when it starts with /9j/, iVBOR, R0lG or UklGR, the
\* result being the markdown image of data:image/<ext>;base64,<payload> and the
\* hint GeneratedImage.<ext>; with none of these prefixes generate returns an
\* error string containing "Unsupported image format" and does not raise.
C7_FormatSniffing ==
    PayloadKnown =>
        LET data == WithoutPrefix(ObtainedPayload)
        IN  /\ ValueOf(img_data) = data
            /\ result.kind = "str"
            /\ \A f \in KnownFormats :
                 StartsWith(data, f[1]) <=> result.v = Markdown((* image/ *) <<"i","m","a","g","e","/">> \o f[2], data, f[2])
            /\ (\A f \in KnownFormats : ~StartsWith(data, f[1]))
                 => Contains(result.v, (* Unsupported image format *) <<"U","n","s","u","p","p","o","r","t","e","d"," ","i","m","a","g","e"," ","f","o","r","m","a","t">>)

\* a b64_json payload behind a data-URI prefix, of a PNG signature, was returned
\* as a png image
C7_Witness ==
    /\ PayloadKnown
    /\ "url_to_img_data" \notin called
    /\ StartsWith(ObtainedPayload, (* data: *) <<"d","a","t","a",":">>)
    /\ StartsWith(ValueOf(img_data), (* iVBOR *) <<"i","V","B","O","R">>)
    /\ result.v = Markdown((* image/png *) <<"i","m","a","g","e","/","p","n","g">>, ValueOf(img_data), (* png *) <<"p","n","g">>)

\* C8: before_input_string is used for the Replicate profile only: for a base
\* URL selecting another profile, or none, calls that differ only in its value,
\* unparseable values included, send the same request and return the same result.
C8_FragmentReplicateOnly ==
    (pc = "done" /\ (NoKeyInUrl \/ FirstKey # 2)) =>
        \A f \in BeforeInputStrings :
            pipe([valves EXCEPT !.BEFORE_INPUT_STRING = f], arg.prompt)
              = pipe(valves, arg.prompt)

\* C9: when the decoded JSON has neither an output field nor a data array
\* whose first element has b64_json, generate returns an "unexpected response
\* format" error string that includes the raw decoded JSON.
C9_UnexpectedShape ==
    (pc = "done" /\ IsJsonResponse /\ Decoded /\ ~HasOutput /\ ~HasB64) =>
        /\ result.kind = "str"
        /\ Contains(result.v, (* Unexpected response format *) <<"U","n","e","x","p","e","c","t","e","d"," ","r","e","s","p","o","n","s","e"," ","f","o","r","m","a","t">>)
        /\ Contains(result.v, Repr(response.json))

\* C10: after a 2xx POST exactly one branch is taken: a response declared
\* application/json goes to the JSON normalizer, one declared image/* to the
\* raw-image normalizer, and for any other Content-Type, an absent header
\* included, generate returns an error string beginning Error: that reports the
\* content type, and neither normalizer is invoked.
C10_Dispatch ==
    (pc \in {"get", "done"} /\ PostSucceeded) =>
        LET type == MediaType(DeclaredType)
        IN  IF type = (* application/json *) <<"a","p","p","l","i","c","a","t","i","o","n","/","j","s","o","n">> THEN
                /\ "handle_json_response" \in called
                /\ "handle_image_response" \notin called
            ELSE IF StartsWith(type, (* image/ *) <<"i","m","a","g","e","/">>) THEN
                called = {"handle_image_response"}
            ELSE
                /\ called = {}
                /\ pc = "done"
                /\ result.kind = "str"
                /\ StartsWith(result.v, (* Error: *) <<"E","r","r","o","r",":">>)
                /\ Contains(result.v, (* content type *) <<"c","o","n","t","e","n","t"," ","t","y","p","e">>)
                /\ Contains(result.v, DeclaredType)

\* a 2xx answer without a Content-Type header was reported as an error
C10_Witness ==
    /\ pc = "done"
    /\ PostSucceeded
    /\ "Content-Type" \notin DOMAIN response.headers
    /\ called = {}
    /\ result.v = (* Error: Unsupported content type  *) <<"E","r","r","o","r",":"," ","U","n","s","u","p","p","o","r","t","e","d"," ","c","o","n","t","e","n","t"," ","t","y","p","e"," ">>

====
